---- MODULE Spec2Model ----
(***************************************************************************)
(* Model of augments/lib/progress.py: the ProgressTracker (shared state,   *)
(* lock and renderer thread) and show_parallel_progress (the fan-out       *)
(* runner on a ThreadPoolExecutor).                                        *)
(*                                                                         *)
(* Threads: "main" (the caller of show_parallel_progress), the renderer    *)
(* thread running ProgressTracker._animate, and one pool worker per        *)
(* submitted task.  Every step between two points where another thread     *)
(* can observe or change shared state is one action.                       *)
(*                                                                         *)
(* Spec and FairSpec are one call of show_parallel_progress on a fresh     *)
(* tracker; TrackerSpec is the tracker under client threads that call      *)
(* start and stop directly.                                                *)
(***************************************************************************)
EXTENDS Integers, Sequences, FiniteSets, TLC

\* ------------------------------------------------------------------ bounds
\* Largest number of (message, function) pairs handed to
\* show_parallel_progress.
MaxTasks == 2

\* Largest number of start and stop calls the client threads issue in all.
MaxCalls == 4

\* ------------------------------------------------------------------ values
\* Python's None.
None == "None"

\* Messages a caller may pass; "" is the falsy string.
Labels == {"A", "B", ""}

\* What a work function does when a worker runs it: return a value, raise
\* an Exception, or raise a BaseException that is no Exception (SystemExit,
\* KeyboardInterrupt).  A function may also never complete: no action is
\* ever obliged to happen.
Kinds == {"ret", "exc", "base"}

\* The value the function of task j returns, or the message of the error it
\* raises: distinct for distinct tasks.
ValueOf(kind, j) ==
    (IF kind = "ret" THEN "v" ELSE "e") \o ToString(j)

\* The threads that call start and stop: the thread that calls
\* show_parallel_progress, and a second client thread.
Callers == {"main", "aux"}

VARIABLES
    operations,  \* ProgressTracker.operations : list of messages
    current,     \* ProgressTracker.current    : message or None
    stopFlag,    \* ProgressTracker._stop
    thread,      \* ProgressTracker._thread    : None or a renderer thread
    lock,        \* ProgressTracker._lock      : "free" or the holder
    rpc,         \* renderer threads, in order of creation: each one's
                 \* position in _animate
    status,      \* the terminal's current line: the last frame drawn on it
    drawn,       \* history: the renderer has written a frame
    tpc,         \* per caller: position inside start / stop
    targ,        \* per caller: argument of the start / stop in progress
    tasks,       \* show_parallel_progress: the operations argument
    pc,          \* main: position in show_parallel_progress
    k,           \* main: index of the loop in progress (1-based)
    fut,         \* futures: state of each submitted future
    finished,    \* history: indices of the tasks in the order they completed
    results,     \* show_parallel_progress: local results
    out,         \* permanent output: stop's lines and print's error lines
    calls,       \* clients: number of start and stop calls issued so far
    hist,        \* history, per client: the operations it started and has
                 \* not stopped, and whether its last stop came with none
    wrap,        \* per client: the with_progress wrapper or track_progress
                 \* block in progress, the stops it made and how it ended
    dur,         \* format_duration: the last argument and what it returned
    san,         \* sanitize_filename, get_artifact_path: argument, results
    uniq,        \* get_unique_filename: argument, files and result
    history,     \* forgetthat: the history file and the calls made on it
    nest,        \* nested blocks on one thread: open labels, closed ones
    transcripts  \* get_transcript: cache files, calls, last call

vars == << operations, current, stopFlag, thread, lock, rpc, status, drawn,
           tpc, targ, tasks, pc, k, fut, finished, results, out,
           calls, hist, wrap, dur,
           san,
           uniq,
           history,
           nest,
           transcripts >>

trackerVars == << operations, current, stopFlag, thread >>
utilVars    == << san, uniq, history, nest, transcripts >>
clientVars  == << calls, hist, wrap, dur, utilVars >>
runnerVars  == << tasks, pc, k, fut, finished, results, clientVars >>

\* ----------------------------------------------------------------- helpers
Truthy_Always(x) == TRUE

\* Python truthiness of ProgressTracker.current (Optional[str]).
Truthy(x) == x # None /\ x # ""

\* The index of the first occurrence of x in s, 0 when there is none.
RECURSIVE IndexFrom(_, _, _)
IndexFrom(s, x, n) ==
    IF n > Len(s) THEN 0
    ELSE IF s[n] = x THEN n
    ELSE IndexFrom(s, x, n + 1)

\* list.remove(x): drops the first occurrence of x.
ListRemove(s, x) ==
    LET n == IndexFrom(s, x, 1)
    IN  [m \in 1..(Len(s) - 1) |-> IF m < n THEN s[m] ELSE s[m + 1]]

\* The name of the r-th renderer thread created, and the way back.
RName(r) == "r" \o ToString(r)

RIndex(name) == CHOOSE r \in 1..Len(rpc) : RName(r) = name

\* The renderer threads that have not terminated.
Alive == { r \in 1..Len(rpc) : rpc[r] # "dead" }

\* Leaving a "with self._lock" block entered by t.
Unlock(t) == IF lock = t THEN "free" ELSE lock

N == Len(tasks)

\* sanitize_filename not called.
NoSanitize ==
    [called |-> FALSE, filename |-> << >>, result |-> << >>, path |-> << >>]

\* get_unique_filename not called.
NoUnique ==
    [called |-> FALSE, path |-> << >>, files |-> {}, after |-> {},
     result |-> << >>]

\* forgetthat not in use.
NoHistory ==
    [shell |-> "bash", cmds |-> << >>, exists |-> FALSE, file |-> << >>,
     log |-> << >>, writes |-> 0]

\* get_transcript not called, no artifact stored.
NoTranscripts ==
    [files |-> {}, fetched |-> {}, calls |-> 0,
     last |-> [hasId |-> FALSE, id |-> << >>, read |-> FALSE, ran |-> FALSE,
               outcome |-> None, wrote |-> FALSE, result |-> None]]

\* No nested block entered.
NoNest == [stack |-> << >>, closed |-> << >>, entered |-> 0]

\* format_duration not called.
NoDuration == [called |-> FALSE, seconds |-> 0, text |-> << >>]

\* No wrapper or block in progress.
NoWrap ==
    [form |-> "none", pc |-> "idle", body |-> None, stops |-> << >>,
     pending |-> None, outcome |-> None]

\* ------------------------------------------------------------------- Init
TaskLists ==
    UNION { { [j \in 1..n |->
                 [msg |-> ms[j],
                  func |-> [kind |-> ks[j], val |-> ValueOf(ks[j], j)]]] :
              ms \in [1..n -> Labels], ks \in [1..n -> Kinds] } :
            n \in 0..MaxTasks }

Init ==
    /\ operations = << >>
    /\ current = None
    /\ stopFlag = FALSE
    /\ thread = None
    /\ lock = "free"
    /\ rpc = << >>
    /\ status = None
    /\ drawn = FALSE
    /\ tpc = [t \in Callers |-> "idle"]
    /\ targ = [t \in Callers |-> None]
    /\ tasks \in TaskLists
    /\ pc = "for_submit"
    /\ k = 1
    /\ fut = [j \in 1..N |-> "none"]
    /\ finished = << >>
    /\ results = << >>
    /\ out = << >>
    /\ calls = 0
    /\ hist = [t \in Callers |-> [open |-> 0, surplus |-> FALSE]]
    /\ san = NoSanitize
    /\ uniq = NoUnique
    /\ history = NoHistory
    /\ nest = NoNest
    /\ transcripts = NoTranscripts
    /\ wrap = [t \in Callers |-> NoWrap]
    /\ dur = NoDuration

\* ------------------------------------------------- ProgressTracker.start
StartAcquire_NoLock(t) ==
    /\ tpc[t] = "start_lock"
    /\ tpc' = [tpc EXCEPT ![t] = "start_body"]
    /\ UNCHANGED << trackerVars, lock, rpc, status, targ, runnerVars, out,
                    drawn >>

\* "with self._lock:" on entry to start.
StartAcquire(t) ==
    /\ tpc[t] = "start_lock"
    /\ lock = "free"
    /\ lock' = t
    /\ tpc' = [tpc EXCEPT ![t] = "start_body"]
    /\ UNCHANGED << trackerVars, rpc, status, targ, runnerVars, out, drawn >>

\* The body of start and the release of the lock.
StartBody(t) ==
    /\ tpc[t] = "start_body"
    /\ operations' = Append(operations, targ[t])
    /\ current' = targ[t]
    /\ IF thread = None
       THEN /\ stopFlag' = FALSE
            /\ thread' = RName(Len(rpc) + 1)
            /\ rpc' = Append(rpc, "test")
       ELSE UNCHANGED << stopFlag, thread, rpc >>
    /\ lock' = Unlock(t)
    /\ tpc' = [tpc EXCEPT ![t] = "ret"]
    /\ UNCHANGED << status, targ, runnerVars, out, drawn >>

\* -------------------------------------------------- ProgressTracker.stop
\* "with self._lock:" on entry to stop.
StopAcquire(t) ==
    /\ tpc[t] = "stop_lock"
    /\ lock = "free"
    /\ lock' = t
    /\ tpc' = [tpc EXCEPT ![t] = "stop_emit"]
    /\ UNCHANGED << trackerVars, rpc, status, targ, runnerVars, out, drawn >>

\* The permanent line stop writes: "\r{symbol} {self.current}\n".  at is the
\* index of the future main is collecting when the line is written (a
\* history field, 0 outside the collecting loop).
PermanentLine(success, label, at) ==
    [kind |-> "line", sym |-> IF success THEN "check" ELSE "cross",
     label |-> label, val |-> None, at |-> at]

Promote_First(ops) == IF ops # << >> THEN ops[1] ELSE None

\* "self.current = self.operations[-1] if self.operations else None".
Promote(ops) == IF ops # << >> THEN ops[Len(ops)] ELSE None

\* "if self.current:" and its block.  list.remove raises ValueError when
\* the value is absent; the exception leaves the with block.
StopEmit(t) ==
    /\ tpc[t] = "stop_emit"
    /\ IF Truthy(current)
       THEN IF IndexFrom(operations, current, 1) = 0
            THEN /\ out' = Append(out, PermanentLine(targ[t], current,
                                    IF pc \in {"in_stop_ok", "in_stop_exc"}
                                    THEN k ELSE 0))
                 /\ status' = None
                 /\ lock' = Unlock(t)
                 /\ tpc' = [tpc EXCEPT ![t] = "raise"]
                 /\ UNCHANGED << operations, current >>
            ELSE /\ out' = Append(out, PermanentLine(targ[t], current,
                                    IF pc \in {"in_stop_ok", "in_stop_exc"}
                                    THEN k ELSE 0))
                 /\ status' = None
                 /\ operations' = ListRemove(operations, current)
                 /\ current' = Promote(operations')
                 /\ tpc' = [tpc EXCEPT ![t] = "stop_check"]
                 /\ UNCHANGED lock
       ELSE /\ tpc' = [tpc EXCEPT ![t] = "stop_check"]
            /\ UNCHANGED << operations, current, out, status, lock >>
    /\ UNCHANGED << stopFlag, thread, rpc, targ, runnerVars, drawn >>

\* "if not self.operations:": self._stop = True, then either the join or
\* the end of the with block.
StopCheck(t) ==
    /\ tpc[t] = "stop_check"
    /\ IF operations = << >>
       THEN /\ stopFlag' = TRUE
            /\ IF thread # None
               THEN /\ tpc' = [tpc EXCEPT ![t] = "stop_join"]
                    /\ UNCHANGED lock
               ELSE /\ tpc' = [tpc EXCEPT ![t] = "ret"]
                    /\ lock' = Unlock(t)
       ELSE /\ tpc' = [tpc EXCEPT ![t] = "ret"]
            /\ lock' = Unlock(t)
            /\ UNCHANGED stopFlag
    /\ UNCHANGED << operations, current, thread, rpc, status, targ,
                    runnerVars, out, drawn >>

StopJoin_NoWait(t) ==
    /\ tpc[t] = "stop_join"
    /\ thread' = None
    /\ lock' = Unlock(t)
    /\ tpc' = [tpc EXCEPT ![t] = "ret"]
    /\ UNCHANGED << operations, current, stopFlag, rpc, status, targ,
                    runnerVars, out, drawn >>

\* self._thread.join() returns once the renderer thread has terminated;
\* then self._thread = None and the with block ends.
StopJoin(t) ==
    /\ tpc[t] = "stop_join"
    /\ rpc[RIndex(thread)] = "dead"
    /\ thread' = None
    /\ lock' = Unlock(t)
    /\ tpc' = [tpc EXCEPT ![t] = "ret"]
    /\ UNCHANGED << operations, current, stopFlag, rpc, status, targ,
                    runnerVars, out, drawn >>

\* ----------------------------------------------- ProgressTracker._animate
\* "while not self._stop:" (read without the lock).
RenderTest(r) ==
    /\ rpc[r] = "test"
    /\ rpc' = [rpc EXCEPT ![r] = IF stopFlag THEN "dead" ELSE "lock"]
    /\ UNCHANGED << trackerVars, lock, status, tpc, targ, runnerVars, out,
                    drawn >>

\* "with self._lock:" in the loop body.
RenderAcquire_NoLock(r) ==
    /\ rpc[r] = "lock"
    /\ rpc' = [rpc EXCEPT ![r] = "check"]
    /\ UNCHANGED << trackerVars, lock, status, tpc, targ, runnerVars, out,
                    drawn >>

RenderAcquire(r) ==
    /\ rpc[r] = "lock"
    /\ lock = "free"
    /\ lock' = RName(r)
    /\ rpc' = [rpc EXCEPT ![r] = "check"]
    /\ UNCHANGED << trackerVars, status, tpc, targ, runnerVars, out, drawn >>

\* "if self.current:"; when it is falsy the with block ends, and the
\* thread sleeps and comes back to the loop test.
RenderCheck(r) ==
    /\ rpc[r] = "check"
    /\ IF Truthy(current)
       THEN /\ rpc' = [rpc EXCEPT ![r] = "write"]
            /\ UNCHANGED lock
       ELSE /\ rpc' = [rpc EXCEPT ![r] = "test"]
            /\ lock' = Unlock(RName(r))
    /\ UNCHANGED << trackerVars, status, tpc, targ, runnerVars, out, drawn >>

\* sys.stdout.write(f"\r{frame} {self.current}"), the end of the with
\* block, time.sleep(0.1) and i += 1.  The glyph frames[i % len(frames)] is
\* not recorded: the line is known by the message it shows.
RenderWrite(r) ==
    /\ rpc[r] = "write"
    /\ status' = current
    /\ drawn' = TRUE
    /\ lock' = Unlock(RName(r))
    /\ rpc' = [rpc EXCEPT ![r] = "test"]
    /\ UNCHANGED << trackerVars, tpc, targ, runnerVars, out >>

\* ------------------------------------------------ show_parallel_progress
\* "for msg, func in operations: _progress.start(msg)": the call.
SubmitLoop ==
    /\ pc = "for_submit"
    /\ IF k <= N
       THEN /\ tpc' = [tpc EXCEPT !["main"] = "start_lock"]
            /\ targ' = [targ EXCEPT !["main"] = tasks[k].msg]
            /\ pc' = "in_start"
            /\ UNCHANGED k
       ELSE /\ pc' = "for_collect"
            /\ k' = 1
            /\ UNCHANGED << tpc, targ >>
    /\ UNCHANGED << trackerVars, lock, rpc, status, tasks, fut, finished,
                    results, out, drawn, clientVars >>

\* start has returned: executor.submit(func), futures.append(future).
Submit ==
    /\ pc = "in_start"
    /\ tpc["main"] = "ret"
    /\ fut' = [fut EXCEPT ![k] = "pending"]
    /\ k' = k + 1
    /\ pc' = "for_submit"
    /\ tpc' = [tpc EXCEPT !["main"] = "idle"]
    /\ UNCHANGED << trackerVars, lock, rpc, status, targ, tasks, finished,
                    results, out, drawn, clientVars >>

\* os.cpu_count() on the machine the program runs on: the smallest value.
CpuCount == 1

\* ThreadPoolExecutor() without max_workers: the pool never holds more
\* than min(32, (os.cpu_count() or 1) + 4) worker threads.
MaxWorkers == IF CpuCount + 4 < 32 THEN CpuCount + 4 ELSE 32

\* The futures whose work function is executing.
Running == { i \in 1..N : fut[i] = "running" }

WorkerFree_Serial == Running = {}

\* A worker thread is idle or can still be created.
WorkerFree == Cardinality(Running) < MaxWorkers

\* A pool worker takes the work item and calls func.
WorkerRun(j) ==
    /\ fut[j] = "pending"
    /\ WorkerFree
    /\ fut' = [fut EXCEPT ![j] = "running"]
    /\ UNCHANGED << trackerVars, lock, rpc, status, tpc, targ, tasks, pc,
                    k, finished, results, out, drawn, clientVars >>

\* func returns or raises; the worker sets the future's result or
\* exception.
WorkerFinish(j) ==
    /\ fut[j] = "running"
    /\ fut' = [fut EXCEPT ![j] = "done"]
    /\ finished' = Append(finished, j)
    /\ UNCHANGED << trackerVars, lock, rpc, status, tpc, targ, tasks, pc,
                    k, results, out, drawn, clientVars >>

\* future.result() returns or raises only once the future is done.
FutureReady_NoWait(j) == fut[j] \in {"running", "done"}

FutureReady(j) == fut[j] = "done"

\* results.append(result).
SuccessSlot_Front(res, v) == << v >> \o res

SuccessSlot(res, v) == Append(res, v)

\* "except Exception": the classes of raised exception the handler takes.
Caught_Nothing(kind) == FALSE

Caught(kind) == kind = "exc"

\* results.append(None) in the handler.
FailedSlot_Skip(res) == res

FailedSlot(res) == Append(res, None)

\* future.message, set to msg when the future was submitted.
FutureMessage_Last(j) == tasks[N].msg

FutureMessage(j) == tasks[j].msg

\* "for future in futures: result = future.result()": blocks until the
\* future is done.  A returned value is appended and stop(success=True)
\* called; an Exception enters the handler, which calls stop(success=False);
\* any other BaseException leaves the function through the with block.
Collect ==
    /\ pc = "for_collect"
    /\ k <= N
    /\ FutureReady(k)
    /\ LET f == tasks[k].func
       IN  CASE f.kind = "ret" ->
                  /\ results' = SuccessSlot(results, f.val)
                  /\ tpc' = [tpc EXCEPT !["main"] = "stop_lock"]
                  /\ targ' = [targ EXCEPT !["main"] = TRUE]
                  /\ pc' = "in_stop_ok"
             [] Caught(f.kind) ->
                  /\ tpc' = [tpc EXCEPT !["main"] = "stop_lock"]
                  /\ targ' = [targ EXCEPT !["main"] = FALSE]
                  /\ pc' = "in_stop_exc"
                  /\ UNCHANGED results
             [] OTHER ->
                  /\ pc' = "unwind"
                  /\ UNCHANGED << results, tpc, targ >>
    /\ UNCHANGED << trackerVars, lock, rpc, status, tasks, k, fut, finished,
                    out, drawn, clientVars >>

\* stop(success=True) has returned: next future.  Had it raised an
\* Exception, the handler would run.
AfterStopOk ==
    /\ pc = "in_stop_ok"
    /\ tpc["main"] \in {"ret", "raise"}
    /\ IF tpc["main"] = "raise"
       THEN /\ tpc' = [tpc EXCEPT !["main"] = "stop_lock"]
            /\ targ' = [targ EXCEPT !["main"] = FALSE]
            /\ pc' = "in_stop_exc"
            /\ UNCHANGED k
       ELSE /\ tpc' = [tpc EXCEPT !["main"] = "idle"]
            /\ k' = k + 1
            /\ pc' = "for_collect"
            /\ UNCHANGED targ
    /\ UNCHANGED << trackerVars, lock, rpc, status, tasks, fut, finished,
                    results, out, drawn, clientVars >>

\* The line print(f"Error in {future.message}: {e}") writes.
ErrorLine(label, err, at) ==
    [kind |-> "error", sym |-> None, label |-> label, val |-> err, at |-> at]

\* stop(success=False) has returned: print the error line, append None.
\* Had stop raised, the exception would leave the function.
AfterStopExc ==
    /\ pc = "in_stop_exc"
    /\ tpc["main"] \in {"ret", "raise"}
    /\ tpc' = [tpc EXCEPT !["main"] = "idle"]
    /\ IF tpc["main"] = "raise"
       THEN /\ pc' = "unwind"
            /\ UNCHANGED << out, results, k >>
       ELSE /\ out' = Append(out, ErrorLine(FutureMessage(k),
                                              tasks[k].func.val, k))
            /\ results' = FailedSlot(results)
            /\ k' = k + 1
            /\ pc' = "for_collect"
    /\ UNCHANGED << trackerVars, lock, rpc, status, targ, tasks, fut,
                    finished, drawn, clientVars >>

Return_WithStop ==
    /\ pc = "for_collect"
    /\ k > N
    /\ \A j \in 1..N : fut[j] = "done"
    /\ pc' = "done"
    /\ stopFlag' = TRUE
    /\ UNCHANGED << operations, current, thread, lock, rpc, status, tpc,
                    targ, tasks, k, fut, finished, results, out, drawn,
                    clientVars >>

\* The end of "with ThreadPoolExecutor()": shutdown(wait=True) returns once
\* every worker has finished; then "return results".
Return ==
    /\ pc = "for_collect"
    /\ k > N
    /\ \A j \in 1..N : fut[j] = "done"
    /\ pc' = "done"
    /\ UNCHANGED << trackerVars, lock, rpc, status, tpc, targ, tasks, k,
                    fut, finished, results, out, drawn, clientVars >>

\* An exception leaving the with block: shutdown(wait=True), then the
\* exception propagates to the caller.
Unwind ==
    /\ pc = "unwind"
    /\ \A j \in 1..N : fut[j] = "done"
    /\ pc' = "raised"
    /\ UNCHANGED << trackerVars, lock, rpc, status, tpc, targ, tasks, k,
                    fut, finished, results, out, drawn, clientVars >>

\* ------------------------------------------------------------------- Next
Next ==
    \/ \E t \in Callers : StartAcquire(t)
    \/ \E t \in Callers : StartBody(t)
    \/ \E t \in Callers : StopAcquire(t)
    \/ \E t \in Callers : StopEmit(t)
    \/ \E t \in Callers : StopCheck(t)
    \/ \E t \in Callers : StopJoin(t)
    \/ \E r \in 1..Len(rpc) : RenderTest(r)
    \/ \E r \in 1..Len(rpc) : RenderAcquire(r)
    \/ \E r \in 1..Len(rpc) : RenderCheck(r)
    \/ \E r \in 1..Len(rpc) : RenderWrite(r)
    \/ SubmitLoop
    \/ Submit
    \/ \E j \in 1..N : WorkerRun(j)
    \/ \E j \in 1..N : WorkerFinish(j)
    \/ Collect
    \/ AfterStopOk
    \/ AfterStopExc
    \/ Return
    \/ Unwind

Spec == Init /\ [][Next]_vars

\* --------------------------------------------- more tasks than workers
\* One call of show_parallel_progress with up to one task more than the
\* pool has workers; only the first task may raise.
MaxPoolTasks == MaxWorkers + 1

PoolTaskLists ==
    { [j \in 1..n |->
          [msg |-> "A",
           func |-> [kind |-> IF j = 1 THEN kd ELSE "ret",
                     val |-> ValueOf(IF j = 1 THEN kd ELSE "ret", j)]]] :
      n \in 0..MaxPoolTasks, kd \in Kinds }

PoolInit ==
    /\ operations = << >>
    /\ current = None
    /\ stopFlag = FALSE
    /\ thread = None
    /\ lock = "free"
    /\ rpc = << >>
    /\ status = None
    /\ drawn = FALSE
    /\ tpc = [t \in Callers |-> "idle"]
    /\ targ = [t \in Callers |-> None]
    /\ tasks \in PoolTaskLists
    /\ pc = "for_submit"
    /\ k = 1
    /\ fut = [j \in 1..N |-> "none"]
    /\ finished = << >>
    /\ results = << >>
    /\ out = << >>
    /\ calls = 0
    /\ hist = [t \in Callers |-> [open |-> 0, surplus |-> FALSE]]
    /\ san = NoSanitize
    /\ uniq = NoUnique
    /\ history = NoHistory
    /\ nest = NoNest
    /\ transcripts = NoTranscripts
    /\ wrap = [t \in Callers |-> NoWrap]
    /\ dur = NoDuration

PoolSpec == PoolInit /\ [][Next]_vars

\* ------------------------------------------------ clients of the tracker
\* The tracker used directly: client threads call _progress.start(message)
\* and _progress.stop(success) in any order (with_progress and
\* track_progress do so around a body), with no fan-out call in progress.
TrackerInit ==
    /\ operations = << >>
    /\ current = None
    /\ stopFlag = FALSE
    /\ thread = None
    /\ lock = "free"
    /\ rpc = << >>
    /\ status = None
    /\ drawn = FALSE
    /\ tpc = [t \in Callers |-> "idle"]
    /\ targ = [t \in Callers |-> None]
    /\ tasks = << >>
    /\ pc = "client"
    /\ k = 1
    /\ fut = << >>
    /\ finished = << >>
    /\ results = << >>
    /\ out = << >>
    /\ calls = 0
    /\ hist = [t \in Callers |-> [open |-> 0, surplus |-> FALSE]]
    /\ san = NoSanitize
    /\ uniq = NoUnique
    /\ history = NoHistory
    /\ nest = NoNest
    /\ transcripts = NoTranscripts
    /\ wrap = [t \in Callers |-> NoWrap]
    /\ dur = NoDuration

\* A client thread that is in no call calls start(message).
ClientStart(t, message) ==
    /\ pc = "client"
    /\ tpc[t] \in {"idle", "ret"}
    /\ calls < MaxCalls
    /\ calls' = calls + 1
    /\ hist' = [hist EXCEPT ![t].open = @ + 1]
    /\ tpc' = [tpc EXCEPT ![t] = "start_lock"]
    /\ targ' = [targ EXCEPT ![t] = message]
    /\ UNCHANGED << trackerVars, lock, rpc, status, drawn, tasks, pc, k, fut,
                    finished, results, out, wrap, dur,
                    utilVars >>

\* A client thread that is in no call calls stop(success).
ClientStop(t, success) ==
    /\ pc = "client"
    /\ tpc[t] \in {"idle", "ret"}
    /\ calls < MaxCalls
    /\ calls' = calls + 1
    /\ hist' = [hist EXCEPT ![t] = [open |-> IF @.open = 0 THEN 0
                                              ELSE @.open - 1,
                                    surplus |-> @.open = 0]]
    /\ tpc' = [tpc EXCEPT ![t] = "stop_lock"]
    /\ targ' = [targ EXCEPT ![t] = success]
    /\ UNCHANGED << trackerVars, lock, rpc, status, drawn, tasks, pc, k, fut,
                    finished, results, out, wrap, dur,
                    utilVars >>

TrackerNext ==
    \/ \E t \in Callers : StartAcquire(t)
    \/ \E t \in Callers : StartBody(t)
    \/ \E t \in Callers : StopAcquire(t)
    \/ \E t \in Callers : StopEmit(t)
    \/ \E t \in Callers : StopCheck(t)
    \/ \E t \in Callers : StopJoin(t)
    \/ \E r \in 1..Len(rpc) : RenderTest(r)
    \/ \E r \in 1..Len(rpc) : RenderAcquire(r)
    \/ \E r \in 1..Len(rpc) : RenderCheck(r)
    \/ \E r \in 1..Len(rpc) : RenderWrite(r)
    \/ \E t \in Callers, message \in Labels : ClientStart(t, message)
    \/ \E t \in Callers, success \in BOOLEAN : ClientStop(t, success)

TrackerSpec == TrackerInit /\ [][TrackerNext]_vars

\* ------------------------------------------ with_progress, track_progress
\* Largest number of wrapped calls and blocks entered in all.
MaxWraps == 2

\* The two forms: the with_progress decorator and the track_progress
\* context manager.
Forms == {"deco", "ctx"}

\* What the wrapped body does: return a value, return a Future whose
\* result() returns or raises, raise an Exception, raise another
\* BaseException.  The body of a with block returns nothing, so it yields
\* no Future.
Bodies(form) ==
    IF form = "deco"
    THEN {"ret", "future_ret", "future_exc", "exc", "base"}
    ELSE {"ret", "exc", "base"}

\* The body raised.
Raised(body) == body \in {"exc", "base"}

\* What the body returned or raised.
BodyResult(body) ==
    CASE body = "ret"  -> [kind |-> "return", val |-> "v"]
      [] body \in {"future_ret", "future_exc"}
                       -> [kind |-> "return", val |-> "Future"]
      [] body = "exc"  -> [kind |-> "raise", val |-> "e"]
      [] OTHER         -> [kind |-> "raise", val |-> "b"]

\* What reaches the except clause of wrapper: an Exception raised by func
\* or by result.result().
WrapperCaught(body) == body \in {"exc", "future_exc"}

\* How the wrapper or the block ends when its stop calls raised nothing:
\* "if isinstance(result, Future): result = result.result()", "return
\* result", "raise e"; __exit__ returns False.
WrapOutcome(form, body) ==
    IF form = "deco"
    THEN CASE body = "ret"        -> [kind |-> "return", val |-> "v"]
           [] body = "future_ret" -> [kind |-> "return", val |-> "fv"]
           [] body = "future_exc" -> [kind |-> "raise", val |-> "fe"]
           [] body = "exc"        -> [kind |-> "raise", val |-> "e"]
           [] OTHER               -> [kind |-> "raise", val |-> "b"]
    ELSE BodyResult(body)

WrapInit ==
    /\ operations = << >>
    /\ current = None
    /\ stopFlag = FALSE
    /\ thread = None
    /\ lock = "free"
    /\ rpc = << >>
    /\ status = None
    /\ drawn = FALSE
    /\ tpc = [t \in Callers |-> "idle"]
    /\ targ = [t \in Callers |-> None]
    /\ tasks = << >>
    /\ pc = "wrapped"
    /\ k = 1
    /\ fut = << >>
    /\ finished = << >>
    /\ results = << >>
    /\ out = << >>
    /\ calls = 0
    /\ hist = [t \in Callers |-> [open |-> 0, surplus |-> FALSE]]
    /\ san = NoSanitize
    /\ uniq = NoUnique
    /\ history = NoHistory
    /\ nest = NoNest
    /\ transcripts = NoTranscripts
    /\ wrap = [t \in Callers |-> NoWrap]
    /\ dur = NoDuration

\* wrapper(*args) or __enter__: _progress.start(message, style).
WrapEnter(t, form, message, body) ==
    /\ pc = "wrapped"
    /\ wrap[t].pc \in {"idle", "done"}
    /\ calls < MaxWraps
    /\ calls' = calls + 1
    /\ wrap' = [wrap EXCEPT ![t] = [form |-> form, pc |-> "in_start",
                                    body |-> body, stops |-> << >>,
                                    pending |-> None, outcome |-> None]]
    /\ tpc' = [tpc EXCEPT ![t] = "start_lock"]
    /\ targ' = [targ EXCEPT ![t] = message]
    /\ UNCHANGED << trackerVars, lock, rpc, status, drawn, tasks, pc, k, fut,
                    finished, results, out, hist, dur,
                    utilVars >>

\* start has returned and the body runs.  wrapper: a value, or the result
\* of a returned Future, leads to stop(success=True); an Exception to
\* stop(success=False); any other BaseException leaves wrapper at once.
\* __exit__: stop(success=exc_type is None).
WrapBody(t) ==
    /\ wrap[t].pc = "in_start"
    /\ tpc[t] = "ret"
    /\ LET w == wrap[t]
           success == IF w.form = "deco" THEN ~WrapperCaught(w.body)
                      ELSE ~Raised(w.body)
       IN  IF w.form = "deco" /\ w.body = "base"
           THEN /\ wrap' = [wrap EXCEPT ![t].pc = "done",
                                        ![t].outcome =
                                            WrapOutcome(w.form, w.body)]
                /\ tpc' = [tpc EXCEPT ![t] = "idle"]
                /\ UNCHANGED targ
           ELSE /\ wrap' = [wrap EXCEPT ![t].pc = "in_stop",
                                        ![t].stops = Append(@, success)]
                /\ tpc' = [tpc EXCEPT ![t] = "stop_lock"]
                /\ targ' = [targ EXCEPT ![t] = success]
    /\ UNCHANGED << trackerVars, lock, rpc, status, drawn, tasks, pc, k, fut,
                    finished, results, out, calls, hist, dur,
                    utilVars >>

\* stop has returned: "return result", "raise e", or the end of __exit__.
\* Had stop(success=True) raised inside wrapper's try, the handler would
\* call stop(success=False) and raise that exception.
WrapExit(t) ==
    /\ wrap[t].pc = "in_stop"
    /\ tpc[t] \in {"ret", "raise"}
    /\ LET w == wrap[t]
       IN  IF tpc[t] = "raise"
           THEN IF w.form = "deco" /\ w.stops = << TRUE >>
                THEN /\ wrap' = [wrap EXCEPT ![t].stops = Append(@, FALSE),
                                             ![t].pending = "ValueError"]
                     /\ tpc' = [tpc EXCEPT ![t] = "stop_lock"]
                     /\ targ' = [targ EXCEPT ![t] = FALSE]
                ELSE /\ wrap' = [wrap EXCEPT ![t].pc = "done",
                                             ![t].outcome =
                                                 [kind |-> "raise",
                                                  val |-> "ValueError"]]
                     /\ tpc' = [tpc EXCEPT ![t] = "idle"]
                     /\ UNCHANGED targ
           ELSE /\ wrap' = [wrap EXCEPT ![t].pc = "done",
                                        ![t].outcome =
                                            IF w.pending # None
                                            THEN [kind |-> "raise",
                                                  val |-> w.pending]
                                            ELSE WrapOutcome(w.form, w.body)]
                /\ tpc' = [tpc EXCEPT ![t] = "idle"]
                /\ UNCHANGED targ
    /\ UNCHANGED << trackerVars, lock, rpc, status, drawn, tasks, pc, k, fut,
                    finished, results, out, calls, hist, dur,
                    utilVars >>

WrapNext ==
    \/ \E t \in Callers : StartAcquire(t)
    \/ \E t \in Callers : StartBody(t)
    \/ \E t \in Callers : StopAcquire(t)
    \/ \E t \in Callers : StopEmit(t)
    \/ \E t \in Callers : StopCheck(t)
    \/ \E t \in Callers : StopJoin(t)
    \/ \E r \in 1..Len(rpc) : RenderTest(r)
    \/ \E r \in 1..Len(rpc) : RenderAcquire(r)
    \/ \E r \in 1..Len(rpc) : RenderCheck(r)
    \/ \E r \in 1..Len(rpc) : RenderWrite(r)
    \/ \E t \in Callers, form \in Forms, message \in Labels :
          \E body \in Bodies(form) : WrapEnter(t, form, message, body)
    \/ \E t \in Callers : WrapBody(t)
    \/ \E t \in Callers : WrapExit(t)

WrapSpec == WrapInit /\ [][WrapNext]_vars

\* -------------------------------------------------------- format_duration
\* Largest number of seconds, and of seconds below zero, in the contiguous
\* range of arguments.
MaxSeconds == 7400

\* Durations around one day and around a hundred hours.
LongDurations ==
    { h * 3600 + m * 60 + sec :
        h \in {23, 24, 99, 100}, m \in {0, 1, 59}, sec \in {0, 1, 59} }

DurationInputs == ((0 - MaxSeconds)..MaxSeconds) \cup LongDurations

\* The characters of str(n) for n >= 0.
RECURSIVE Digits(_)
Digits(n) ==
    LET c == << "0", "1", "2", "3", "4", "5", "6", "7", "8", "9" >>
    IN  IF n < 10 THEN << c[n + 1] >>
        ELSE Digits(n \div 10) \o << c[(n % 10) + 1] >>

\* f"{n:02d}": at least two characters, zero-padded; the sign of a
\* negative number counts as one of them.
Pad2(n) ==
    IF n >= 0
    THEN (IF n < 10 THEN << "0" >> ELSE << >>) \o Digits(n)
    ELSE << "-" >> \o Digits(0 - n)

\* "hours = seconds // 3600" (floor division).
Hours(seconds) == seconds \div 3600

Minutes_NoWrap(seconds) == seconds \div 60

\* "minutes = (seconds % 3600) // 60".
Minutes(seconds) == (seconds % 3600) \div 60

\* "seconds = seconds % 60".
Seconds(seconds) == seconds % 60

\* f"{hours:02d}:{minutes:02d}:{seconds:02d}", as its characters.
FormatDuration(seconds) ==
    Pad2(Hours(seconds)) \o << ":" >> \o Pad2(Minutes(seconds))
        \o << ":" >> \o Pad2(Seconds(seconds))

DurationInit ==
    /\ operations = << >>
    /\ current = None
    /\ stopFlag = FALSE
    /\ thread = None
    /\ lock = "free"
    /\ rpc = << >>
    /\ status = None
    /\ drawn = FALSE
    /\ tpc = [t \in Callers |-> "idle"]
    /\ targ = [t \in Callers |-> None]
    /\ tasks = << >>
    /\ pc = "duration"
    /\ k = 1
    /\ fut = << >>
    /\ finished = << >>
    /\ results = << >>
    /\ out = << >>
    /\ calls = 0
    /\ hist = [t \in Callers |-> [open |-> 0, surplus |-> FALSE]]
    /\ san = NoSanitize
    /\ uniq = NoUnique
    /\ history = NoHistory
    /\ nest = NoNest
    /\ transcripts = NoTranscripts
    /\ wrap = [t \in Callers |-> NoWrap]
    /\ dur \in { [called |-> FALSE, seconds |-> seconds, text |-> << >>] :
                  seconds \in DurationInputs }

\* The call format_duration(seconds) with the argument drawn.
FormatCall ==
    /\ pc = "duration"
    /\ ~dur.called
    /\ dur' = [called |-> TRUE, seconds |-> dur.seconds,
               text |-> FormatDuration(dur.seconds)]
    /\ UNCHANGED << trackerVars, lock, rpc, status, drawn, tpc, targ, tasks,
                    pc, k, fut, finished, results, out, calls, hist, wrap,
                    utilVars >>

DurationNext == FormatCall

DurationSpec == DurationInit /\ [][DurationNext]_vars

\* ------------------------------------ sanitize_filename, get_artifact_path
\* Strings are sequences of characters.
\* "filename[:255]": the longest name kept.
MaxFileName == 255

\* Longest name in the set of short arguments.
MaxNameLen == 4

\* The characters the arguments are made of: a letter, the space, the
\* period and three of the invalid characters.
NameChars == {"a", " ", ".", "/", "\\", "?"}

\* invalid_chars = '<>:"/\|?*', in the order the loop takes them.
InvalidChars == << "<", ">", ":", "\"", "/", "\\", "|", "?", "*" >>

\* n times the letter a.
Fill(n) == [i \in 1..n |-> "a"]

ShortNames == UNION { [1..n -> NameChars] : n \in 0..MaxNameLen }

\* Names around the length limit, and the names the tests use.
LongNames ==
    { Fill(MaxFileName - 2) \o tail :
        tail \in UNION { [1..n -> {"a", ".", " ", "/"}] : n \in 2..3 } }
    \cup { Fill(300),
           << ".", ".", "h", "i", "d", "d", "e", "n" >>,
           << "u", "n", "s", "a", "f", "e", "/", ".", ".", "/", ".", ".",
              "/", "f", "i", "l", "e", ".", "t", "x", "t" >> }

SanitizeInputs == ShortNames \cup LongNames

\* str.replace(old, new) for one-character old and new.
ReplaceChar(str, old, new) ==
    [i \in 1..Len(str) |-> IF str[i] = old THEN new ELSE str[i]]

\* str.replace(char, '') for one character.
RemoveChar(str, char) == SelectSeq(str, LAMBDA c : c # char)

\* "for char in invalid_chars: filename = filename.replace(char, '')",
\* from the n-th character of invalid_chars on.
RECURSIVE RemoveInvalid(_, _)
RemoveInvalid(str, n) ==
    IF n > Len(InvalidChars) THEN str
    ELSE RemoveInvalid(RemoveChar(str, InvalidChars[n]), n + 1)

\* str[:n].
Prefix(str, n) == SubSeq(str, 1, IF Len(str) < n THEN Len(str) ELSE n)

\* str.rstrip(chars).
RECURSIVE RStrip(_, _)
RStrip(str, chars) ==
    IF str # << >> /\ str[Len(str)] \in chars
    THEN RStrip(SubSeq(str, 1, Len(str) - 1), chars)
    ELSE str

SanitizeFilename_StripFirst(filename) ==
    Prefix(RStrip(RemoveInvalid(ReplaceChar(filename, " ", "_"), 1),
                  {".", " "}),
           MaxFileName)

SanitizeFilename(filename) ==
    RStrip(Prefix(RemoveInvalid(ReplaceChar(filename, " ", "_"), 1),
                  MaxFileName),
           {".", " "})

\* os.path.join(a, b) on a POSIX system.
PathJoin(a, b) ==
    IF b # << >> /\ b[1] = "/" THEN b
    ELSE IF a = << >> \/ a[Len(a)] = "/" THEN a \o b
    ELSE a \o << "/" >> \o b

\* The artifacts directory (~/.config/augments/artifacts, shortened) and
\* the category the artifact goes to.
BaseDir == << "/", "h", "/", "a" >>

Category == << "t" >>

\* os.path.join(base_dir, category, sanitize_filename(filename)).
ArtifactPath(category, filename) ==
    PathJoin(PathJoin(BaseDir, category), SanitizeFilename(filename))

SanitizeInit ==
    /\ operations = << >>
    /\ current = None
    /\ stopFlag = FALSE
    /\ thread = None
    /\ lock = "free"
    /\ rpc = << >>
    /\ status = None
    /\ drawn = FALSE
    /\ tpc = [t \in Callers |-> "idle"]
    /\ targ = [t \in Callers |-> None]
    /\ tasks = << >>
    /\ pc = "sanitize"
    /\ k = 1
    /\ fut = << >>
    /\ finished = << >>
    /\ results = << >>
    /\ out = << >>
    /\ calls = 0
    /\ hist = [t \in Callers |-> [open |-> 0, surplus |-> FALSE]]
    /\ uniq = NoUnique
    /\ history = NoHistory
    /\ nest = NoNest
    /\ transcripts = NoTranscripts
    /\ wrap = [t \in Callers |-> NoWrap]
    /\ dur = NoDuration
    /\ san \in { [called |-> FALSE, filename |-> filename,
                   result |-> << >>, path |-> << >>] :
                  filename \in SanitizeInputs }

\* The calls sanitize_filename(filename) and
\* get_artifact_path(category, filename) with the argument drawn.
SanitizeCall ==
    /\ pc = "sanitize"
    /\ ~san.called
    /\ san' = [called |-> TRUE, filename |-> san.filename,
               result |-> SanitizeFilename(san.filename),
               path |-> ArtifactPath(Category, san.filename)]
    /\ UNCHANGED << trackerVars, lock, rpc, status, drawn, tpc, targ, tasks,
                    pc, k, fut, finished, results, out, calls, hist, wrap,
                    dur, uniq, history, nest, transcripts >>

SanitizeNext == SanitizeCall

SanitizeSpec == SanitizeInit /\ [][SanitizeNext]_vars

\* ---------------------------------------------------- get_unique_filename
\* Largest counter whose file may exist already.
MaxCounter == 10

\* The paths asked for: with an extension, without one, a name that
\* begins with a period, a directory with a period in its name.
UniquePaths ==
    { << "t", ".", "x" >>, << "t" >>, << ".", "t" >>,
      << "d", ".", "d", "/", "t" >> }

\* The position of the last occurrence of char in str, 0 if none.
RECURSIVE LastIndex(_, _)
LastIndex(str, char) ==
    IF str = << >> THEN 0
    ELSE IF str[Len(str)] = char THEN Len(str)
    ELSE LastIndex(SubSeq(str, 1, Len(str) - 1), char)

\* os.path.splitext(path) on a POSIX system: the extension starts at the
\* last period of the last component, unless only periods precede it
\* there.
SplitExt(path) ==
    LET sep == LastIndex(path, "/")
        dot == LastIndex(path, ".")
        named == \E i \in (sep + 1)..(dot - 1) : path[i] # "."
    IN  IF dot > sep /\ named
        THEN << SubSeq(path, 1, dot - 1), SubSeq(path, dot, Len(path)) >>
        ELSE << path, << >> >>

\* f"{base}_{counter}{ext}".
Numbered(path, counter) ==
    SplitExt(path)[1] \o << "_" >> \o Digits(counter) \o SplitExt(path)[2]

\* "while os.path.exists(f"{base}_{counter}{ext}"): counter += 1", from
\* counter on: the counter the loop ends with.
RECURSIVE FreeCounter(_, _, _)
FreeCounter(path, files, counter) ==
    IF Numbered(path, counter) \in files
    THEN FreeCounter(path, files, counter + 1)
    ELSE counter

\* The files whose existence the call may ask about.
UniqueCandidates(path) ==
    { path } \cup { Numbered(path, n) : n \in 1..MaxCounter }

GetUniqueFilename_First(path, files) ==
    IF path \notin files THEN path ELSE Numbered(path, 1)

GetUniqueFilename(path, files) ==
    IF path \notin files THEN path
    ELSE Numbered(path, FreeCounter(path, files, 1))

UniqueInit ==
    /\ operations = << >>
    /\ current = None
    /\ stopFlag = FALSE
    /\ thread = None
    /\ lock = "free"
    /\ rpc = << >>
    /\ status = None
    /\ drawn = FALSE
    /\ tpc = [t \in Callers |-> "idle"]
    /\ targ = [t \in Callers |-> None]
    /\ tasks = << >>
    /\ pc = "unique"
    /\ k = 1
    /\ fut = << >>
    /\ finished = << >>
    /\ results = << >>
    /\ out = << >>
    /\ calls = 0
    /\ hist = [t \in Callers |-> [open |-> 0, surplus |-> FALSE]]
    /\ history = NoHistory
    /\ nest = NoNest
    /\ transcripts = NoTranscripts
    /\ wrap = [t \in Callers |-> NoWrap]
    /\ dur = NoDuration
    /\ san = NoSanitize
    /\ uniq \in UNION { { [called |-> FALSE, path |-> path,
                            files |-> files, after |-> files,
                            result |-> << >>] :
                             files \in SUBSET UniqueCandidates(path) } :
                         path \in UniquePaths }

\* The call get_unique_filename(path): it only asks os.path.exists.
UniqueCall ==
    /\ pc = "unique"
    /\ ~uniq.called
    /\ uniq' = [uniq EXCEPT !.called = TRUE,
                            !.result = GetUniqueFilename(uniq.path,
                                                         uniq.files)]
    /\ UNCHANGED << trackerVars, lock, rpc, status, drawn, tpc, targ, tasks,
                    pc, k, fut, finished, results, out, calls, hist, wrap,
                    dur, san, history, nest, transcripts >>

UniqueNext == UniqueCall

UniqueSpec == UniqueInit /\ [][UniqueNext]_vars

\* -------------------------------------------------------------- forgetthat
\* Largest number of commands in a history file.
MaxCommands == 4

\* Largest number of calls of get_last_command and remove_last_command
\* made on one file.
MaxHistoryCalls == 3

\* The formats, told by the end of the file's name: zsh_history,
\* fish_history, anything else.
Shells == {"bash", "zsh", "fish"}

\* A line of a history file: what kind of line it is and the command it
\* carries.  "text" is a bash line, "entry" a zsh line ": time:0;command",
\* "cmd" the fish line '"cmd": "command",'; "open", "when" and "close" are
\* the other lines of a fish record; "blank" is white space only.
Line(kind, cmd) == [kind |-> kind, cmd |-> cmd]

\* The lines one command takes in the file.
EntryLines(shell, cmd) ==
    CASE shell = "zsh"  -> << Line("entry", cmd) >>
      [] shell = "fish" -> << Line("open", None), Line("cmd", cmd),
                              Line("when", None), Line("close", None) >>
      [] OTHER          -> << Line("text", cmd) >>

\* The file that records cmds, followed by blanks blank lines.
RECURSIVE HistoryLines(_, _, _)
HistoryLines(shell, cmds, blanks) ==
    IF cmds = << >> THEN [i \in 1..blanks |-> Line("blank", None)]
    ELSE EntryLines(shell, Head(cmds))
         \o HistoryLines(shell, Tail(cmds), blanks)

\* The n-th command typed.
Command(n) == "c" \o ToString(n)

\* list(reversed(lines)).
Reversed(lines) == [i \in 1..Len(lines) |-> lines[Len(lines) + 1 - i]]

\* "not line.strip()".
IsBlank(line) == line.kind = "blank"

\* line.strip() of a line that is not blank: the command, or the text of
\* the line.
Stripped(line) == IF line.cmd # None THEN line.cmd ELSE line.kind

\* re.search(r';\s*(.+)$', line) and re.search(r'"cmd"\s*:\s*"(.+?)"',
\* line) succeed on these lines.
ZshMatch(line) == line.kind = "entry"

FishMatch(line) == line.kind = "cmd"

\* The two loops over reversed(lines): the second match is returned at
\* once; with fewer than two, commands[0] or None and a message.
ScanBack(lines, shell) ==
    LET Match(line) == IF shell = "zsh" THEN ZshMatch(line)
                       ELSE FishMatch(line)
        commands == SelectSeq(Reversed(lines), Match)
    IN  IF Len(commands) >= 2 THEN << commands[2].cmd, None >>
        ELSE << IF commands # << >> THEN commands[1].cmd ELSE None,
                "Only one command in history" >>

\* exists: os.path.exists(history_file); file: f.readlines().
GetLastCommand(shell, exists, file) ==
    IF ~exists THEN << None, "History file not found" >>
    ELSE IF file = << >> THEN << None, "History is empty" >>
    ELSE IF shell = "zsh" THEN ScanBack(file, shell)
    ELSE IF shell = "fish" THEN ScanBack(file, shell)
    ELSE LET commands ==
                 SelectSeq(Reversed(file), LAMBDA line : ~IsBlank(line))
         IN  IF Len(commands) >= 2
             THEN << Stripped(commands[2]), None >>
             ELSE << None, "No commands found in history" >>

\* "while lines and not lines[-1].strip(): lines.pop()".
RECURSIVE PopBlank(_)
PopBlank(lines) ==
    IF lines # << >> /\ IsBlank(lines[Len(lines)])
    THEN PopBlank(SubSeq(lines, 1, Len(lines) - 1))
    ELSE lines

RemoveLastCommand_AlwaysWrite(exists, file) ==
    IF ~exists
    THEN [error |-> "Error removing command", file |-> file,
          wrote |-> FALSE]
    ELSE IF file = << >>
    THEN [error |-> "History is empty", file |-> file, wrote |-> FALSE]
    ELSE LET lines == PopBlank(file)
         IN  IF lines # << >>
             THEN [error |-> None,
                   file |-> SubSeq(lines, 1, Len(lines) - 1),
                   wrote |-> TRUE]
             ELSE [error |-> "No commands to remove", file |-> lines,
                   wrote |-> TRUE]

\* remove_last_command: the message returned (None for success), the file
\* afterwards and whether it was opened for writing.  open() of a missing
\* file raises, which the handler turns into "Error removing command: ...".
RemoveLastCommand(exists, file) ==
    IF ~exists
    THEN [error |-> "Error removing command", file |-> file,
          wrote |-> FALSE]
    ELSE IF file = << >>
    THEN [error |-> "History is empty", file |-> file, wrote |-> FALSE]
    ELSE LET lines == PopBlank(file)
         IN  IF lines # << >>
             THEN [error |-> None,
                   file |-> SubSeq(lines, 1, Len(lines) - 1),
                   wrote |-> TRUE]
             ELSE [error |-> "No commands to remove", file |-> file,
                   wrote |-> FALSE]

\* The histories: no file, or a file of 0..MaxCommands commands in one of
\* the formats, followed by up to two blank lines.
Histories ==
    { [shell |-> shell, cmds |-> << >>, exists |-> FALSE, file |-> << >>,
       log |-> << >>, writes |-> 0] : shell \in Shells }
    \cup { [shell |-> shell, cmds |-> [i \in 1..n |-> Command(i)],
            exists |-> TRUE,
            file |-> HistoryLines(shell, [i \in 1..n |-> Command(i)],
                                  blanks),
            log |-> << >>, writes |-> 0] :
            shell \in Shells, n \in 0..MaxCommands, blanks \in 0..2 }

HistoryInit ==
    /\ operations = << >>
    /\ current = None
    /\ stopFlag = FALSE
    /\ thread = None
    /\ lock = "free"
    /\ rpc = << >>
    /\ status = None
    /\ drawn = FALSE
    /\ tpc = [t \in Callers |-> "idle"]
    /\ targ = [t \in Callers |-> None]
    /\ tasks = << >>
    /\ pc = "forgetthat"
    /\ k = 1
    /\ fut = << >>
    /\ finished = << >>
    /\ results = << >>
    /\ out = << >>
    /\ calls = 0
    /\ hist = [t \in Callers |-> [open |-> 0, surplus |-> FALSE]]
    /\ nest = NoNest
    /\ transcripts = NoTranscripts
    /\ wrap = [t \in Callers |-> NoWrap]
    /\ dur = NoDuration
    /\ san = NoSanitize
    /\ uniq = NoUnique
    /\ history \in Histories

\* A call get_last_command(history_file): it reads the file only.
HistoryGet ==
    /\ pc = "forgetthat"
    /\ Len(history.log) < MaxHistoryCalls
    /\ history' =
          [history EXCEPT
              !.log = Append(@, [op |-> "get",
                                 result |-> GetLastCommand(history.shell,
                                                           history.exists,
                                                           history.file),
                                 before |-> history.file,
                                 after |-> history.file])]
    /\ UNCHANGED << trackerVars, lock, rpc, status, drawn, tpc, targ, tasks,
                    pc, k, fut, finished, results, out, calls, hist, wrap,
                    dur, san, uniq, nest, transcripts >>

\* A call remove_last_command(history_file).
HistoryRemove ==
    /\ pc = "forgetthat"
    /\ Len(history.log) < MaxHistoryCalls
    /\ LET r == RemoveLastCommand(history.exists, history.file)
       IN  history' =
             [history EXCEPT
                 !.file = r.file,
                 !.writes = IF r.wrote THEN @ + 1 ELSE @,
                 !.log = Append(@, [op |-> "remove",
                                    result |-> << None, r.error >>,
                                    before |-> history.file,
                                    after |-> r.file])]
    /\ UNCHANGED << trackerVars, lock, rpc, status, drawn, tpc, targ, tasks,
                    pc, k, fut, finished, results, out, calls, hist, wrap,
                    dur, san, uniq, nest, transcripts >>

HistoryNext == HistoryGet \/ HistoryRemove

HistorySpec == HistoryInit /\ [][HistoryNext]_vars

\* ---------------------------------------------------------- get_transcript
\* Longest URL passed to get_transcript.
MaxUrlLen == 4

\* Largest number of calls of get_transcript.
MaxTranscriptCalls == 2

\* The characters of the URLs: those of "v=" and one that ends the
\* video id.
UrlChars == {"v", "=", "&"}

Urls == UNION { [1..n -> UrlChars] : n \in 0..MaxUrlLen }

\* What run_command returns: None when the command failed, else its
\* output stripped, which may be empty.
Outcomes == {None, "", "T1", "T2"}

\* The positions where r"(?<=v=)[^&#]+" can match.
MatchStarts(url) ==
    { i \in 3..Len(url) :
        url[i - 2] = "v" /\ url[i - 1] = "=" /\ url[i] \notin {"&", "#"} }

\* The last position of the run of [^&#] that starts at i.
RECURSIVE RunEnd(_, _)
RunEnd(url, i) ==
    IF i < Len(url) /\ url[i + 1] \notin {"&", "#"}
    THEN RunEnd(url, i + 1) ELSE i

\* re.search(...).group(0), or None (found = FALSE) when nothing matches.
GetVideoId(url) ==
    IF MatchStarts(url) = {} THEN [found |-> FALSE, id |-> << >>]
    ELSE LET i == CHOOSE m \in MatchStarts(url) :
                      \A n \in MatchStarts(url) : m <= n
         IN [found |-> TRUE, id |-> SubSeq(url, i, RunEnd(url, i))]

\* f"{video_id}.txt"
TxtName(video_id) == video_id \o << ".", "t", "x", "t" >>

\* load_artifact: the content of the file, None when open raises.
LoadArtifact(files, category, filename) ==
    LET path == ArtifactPath(category, filename)
    IN IF \E f \in files : f.path = path
       THEN (CHOOSE f \in files : f.path = path).content
       ELSE None

SaveArtifact_Skip(files, category, filename, content) == files

\* save_artifact: open(path, 'w') and write the content.
SaveArtifact(files, category, filename, content) ==
    LET path == ArtifactPath(category, filename)
    IN { f \in files : f.path # path }
       \cup {[path |-> path, content |-> content]}

\* get_transcript(url) in non-detailed mode, the external command
\* returning outcome if it is run: the call and the files after it.
GetTranscript(files, url, outcome) ==
    LET video == GetVideoId(url)
        cached == LoadArtifact(files, Category, TxtName(video.id))
        call == [hasId |-> video.found, id |-> video.id, read |-> FALSE,
                 ran |-> FALSE, outcome |-> None, wrote |-> FALSE,
                 result |-> None]
    IN IF ~video.found THEN [call |-> call, files |-> files]
       ELSE IF Truthy(cached)
       THEN [call |-> [call EXCEPT !.read = TRUE, !.result = cached],
             files |-> files]
       ELSE IF Truthy(outcome)
       THEN [call |-> [call EXCEPT !.read = TRUE, !.ran = TRUE,
                                   !.outcome = outcome, !.wrote = TRUE,
                                   !.result = outcome],
             files |-> SaveArtifact(files, Category, TxtName(video.id),
                                    outcome)]
       ELSE [call |-> [call EXCEPT !.read = TRUE, !.ran = TRUE,
                                   !.outcome = outcome],
             files |-> files]

TranscriptInit ==
    /\ operations = << >>
    /\ current = None
    /\ stopFlag = FALSE
    /\ thread = None
    /\ lock = "free"
    /\ rpc = << >>
    /\ status = None
    /\ drawn = FALSE
    /\ tpc = [t \in Callers |-> "idle"]
    /\ targ = [t \in Callers |-> None]
    /\ tasks = << >>
    /\ pc = "transcript"
    /\ k = 1
    /\ fut = << >>
    /\ finished = << >>
    /\ results = << >>
    /\ out = << >>
    /\ calls = 0
    /\ hist = [t \in Callers |-> [open |-> 0, surplus |-> FALSE]]
    /\ wrap = [t \in Callers |-> NoWrap]
    /\ dur = NoDuration
    /\ san = NoSanitize
    /\ uniq = NoUnique
    /\ history = NoHistory
    /\ nest = NoNest
    /\ transcripts = NoTranscripts

\* get_transcript(url) reaches run_command: the URL has a video id and
\* no non-empty file is cached for it.
RunsCommand(files, url) ==
    /\ GetVideoId(url).found
    /\ ~Truthy(LoadArtifact(files, Category, TxtName(GetVideoId(url).id)))

\* One call of get_transcript(url); the external command has an outcome
\* only if it is run. fetched remembers, for each video id, the
\* transcript the command last returned for it.
TranscriptCall(url) ==
    /\ pc = "transcript"
    /\ transcripts.calls < MaxTranscriptCalls
    /\ \E outcome \in IF RunsCommand(transcripts.files, url)
                       THEN Outcomes ELSE {None} :
       LET r == GetTranscript(transcripts.files, url, outcome)
       IN transcripts' =
            [files |-> r.files,
             fetched |->
                 IF r.call.ran /\ Truthy(outcome)
                 THEN { f \in transcripts.fetched : f.id # r.call.id }
                      \cup {[id |-> r.call.id, text |-> outcome]}
                 ELSE transcripts.fetched,
             calls |-> transcripts.calls + 1,
             last |-> r.call]
    /\ UNCHANGED << trackerVars, lock, rpc, status, drawn, tpc, targ, tasks,
                    pc, k, fut, finished, results, out, calls, hist, wrap,
                    dur, san, uniq, history, nest >>

TranscriptNext == \E url \in Urls : TranscriptCall(url)

TranscriptSpec == TranscriptInit /\ [][TranscriptNext]_vars

\* ---------------------------------------------------------- nested blocks
\* Largest number of blocks entered by the thread.
MaxEnters == 3

\* The labels of the blocks: string literals, never empty.
NestLabels == {"A", "B"}

NestInit ==
    /\ operations = << >>
    /\ current = None
    /\ stopFlag = FALSE
    /\ thread = None
    /\ lock = "free"
    /\ rpc = << >>
    /\ status = None
    /\ drawn = FALSE
    /\ tpc = [t \in Callers |-> "idle"]
    /\ targ = [t \in Callers |-> None]
    /\ tasks = << >>
    /\ pc = "nested"
    /\ k = 1
    /\ fut = << >>
    /\ finished = << >>
    /\ results = << >>
    /\ out = << >>
    /\ calls = 0
    /\ hist = [t \in Callers |-> [open |-> 0, surplus |-> FALSE]]
    /\ transcripts = NoTranscripts
    /\ wrap = [t \in Callers |-> NoWrap]
    /\ dur = NoDuration
    /\ san = NoSanitize
    /\ uniq = NoUnique
    /\ history = NoHistory
    /\ nest = NoNest

\* "with track_progress(message):" inside the blocks already open:
\* __enter__ calls _progress.start(message, style).
NestEnter(message) ==
    /\ pc = "nested"
    /\ tpc["main"] \in {"idle", "ret"}
    /\ nest.entered < MaxEnters
    /\ nest' = [nest EXCEPT !.stack = Append(@, message),
                            !.entered = @ + 1]
    /\ tpc' = [tpc EXCEPT !["main"] = "start_lock"]
    /\ targ' = [targ EXCEPT !["main"] = message]
    /\ UNCHANGED << trackerVars, lock, rpc, status, drawn, tasks, pc, k, fut,
                    finished, results, out, calls, hist, wrap, dur, san,
                    uniq, history, transcripts >>

\* The innermost open block ends: __exit__ calls
\* _progress.stop(success=exc_type is None).
NestExit(success) ==
    /\ pc = "nested"
    /\ tpc["main"] \in {"idle", "ret"}
    /\ nest.stack # << >>
    /\ nest' = [nest EXCEPT
                   !.stack = SubSeq(@, 1, Len(@) - 1),
                   !.closed = Append(@, [label |-> nest.stack[Len(nest.stack)],
                                         success |-> success])]
    /\ tpc' = [tpc EXCEPT !["main"] = "stop_lock"]
    /\ targ' = [targ EXCEPT !["main"] = success]
    /\ UNCHANGED << trackerVars, lock, rpc, status, drawn, tasks, pc, k, fut,
                    finished, results, out, calls, hist, wrap, dur, san,
                    uniq, history, transcripts >>

NestNext ==
    \/ StartAcquire("main")
    \/ StartBody("main")
    \/ StopAcquire("main")
    \/ StopEmit("main")
    \/ StopCheck("main")
    \/ StopJoin("main")
    \/ \E r \in 1..Len(rpc) : RenderTest(r)
    \/ \E r \in 1..Len(rpc) : RenderAcquire(r)
    \/ \E r \in 1..Len(rpc) : RenderCheck(r)
    \/ \E r \in 1..Len(rpc) : RenderWrite(r)
    \/ \E message \in NestLabels : NestEnter(message)
    \/ \E success \in BOOLEAN : NestExit(success)

NestSpec == NestInit /\ [][NestNext]_vars

\* Scheduling: every thread that can take a step eventually takes one, and
\* a thread waiting for the lock gets it if the lock is free again and
\* again (the renderer sleeps 0.1 s between two acquisitions).
Fairness ==
    /\ \A t \in Callers :
          /\ SF_vars(StartAcquire(t))
          /\ WF_vars(StartBody(t))
          /\ SF_vars(StopAcquire(t))
          /\ WF_vars(StopEmit(t))
          /\ WF_vars(StopCheck(t))
          /\ WF_vars(StopJoin(t))
    /\ WF_vars(\E r \in 1..Len(rpc) : RenderTest(r))
    /\ SF_vars(\E r \in 1..Len(rpc) : RenderAcquire(r))
    /\ WF_vars(\E r \in 1..Len(rpc) : RenderCheck(r))
    /\ WF_vars(\E r \in 1..Len(rpc) : RenderWrite(r))
    /\ WF_vars(SubmitLoop \/ Submit \/ Collect \/ AfterStopOk \/ AfterStopExc
                \/ Return \/ Unwind)
    /\ \A j \in 1..MaxTasks :
          /\ WF_vars(j \in 1..N /\ WorkerRun(j))
          /\ WF_vars(j \in 1..N /\ WorkerFinish(j))

FairSpec == Spec /\ Fairness

\* ---------------------------------------------------------------- claims
\* The messages in the active set.
Active == { operations[n] : n \in 1..Len(operations) }

\* The positions in out of the error lines print wrote for task j.
ErrorLines(j) ==
    { n \in 1..Len(out) : out[n].kind = "error" /\ out[n].at = j }

\* The tasks whose function returns.
Succeeding == { j \in 1..N : tasks[j].func.kind = "ret" }

\* C1: every call to stop eventually returns, under fair scheduling and
\* for every interleaving with the renderer thread.
C1_StopEventuallyReturns ==
    \A t \in Callers : (tpc[t] = "stop_lock") ~> (tpc[t] = "ret")

\* C2: the list show_parallel_progress returns has exactly N entries.
C2_ResultLength == pc = "done" => Len(results) = N

C2_Witness ==
    /\ pc = "done"
    /\ N = 2
    /\ finished = << 2, 1 >>
    /\ tasks[1].func.kind = "exc"
    /\ tasks[2].func.kind = "ret"
    /\ Len(results) = 2

\* C3: when the call returns, slot j holds the value the function of task
\* j returned, for every task whose function returned, in whatever order
\* the tasks completed.
C3_SuccessSlot ==
    pc = "done" =>
        \A j \in Succeeding :
            j <= Len(results) /\ results[j] = tasks[j].func.val

C3_Witness ==
    /\ pc = "done"
    /\ N = 2
    /\ finished = << 2, 1 >>
    /\ Succeeding = {1, 2}
    /\ results = << "v1", "v2" >>

C6_BlocksUntilAllComplete ==
    /\ pc \in {"done", "raised"} => \A j \in 1..N : fut[j] = "done"
    /\ \A j \in 1..Len(results) : j <= N /\ fut[j] = "done"

C6_Witness ==
    /\ pc = "for_collect"
    /\ N = 2
    /\ k = 1
    /\ fut[1] = "running"
    /\ fut[2] = "done"
    /\ results = << >>

\* C7: the permanent line written by the stop for task j carries the
\* message of task j, with a check mark exactly when its function returned.
C7_LineNamesStoppedTask ==
    \A n \in 1..Len(out) :
        (out[n].kind = "line" /\ out[n].at > 0) =>
            /\ out[n].label = tasks[out[n].at].msg
            /\ (out[n].sym = "check") <=> (out[n].at \in Succeeding)

\* C8: the message of every task whose function is running is in the
\* active set.
C8_RunningTasksAreActive ==
    \A j \in 1..N : fut[j] = "running" => tasks[j].msg \in Active

\* C9: the active set has at most as many entries as there are tasks that
\* have not completed.
C9_ActiveAtMostIncomplete ==
    Len(operations) <= Cardinality({ j \in 1..N : fut[j] # "done" })

\* C10: the renderer writes a frame only while the active set is not
\* empty.
C10_NoFrameOnEmptySet ==
    [][(\E r \in 1..Len(rpc) : RenderWrite(r)) => operations # << >>]_vars

\* A frame was written, then a stop emptied the active set and returned
\* with the renderer terminated.
C10_Witness ==
    /\ drawn
    /\ operations = << >>
    /\ Len(out) >= 1
    /\ Len(rpc) >= 1
    /\ Alive = {}
    /\ thread = None
    /\ \E t \in Callers : tpc[t] = "ret" /\ targ[t] \in BOOLEAN

\* C11: at most one renderer thread is alive at a time, one is alive
\* whenever operations is non-empty, and a start on the empty set launches
\* a new renderer thread that enters its loop with _stop cleared.
C11_SingleRenderer ==
    /\ [](/\ Cardinality(Alive) <= 1
          /\ operations # << >> => Cardinality(Alive) = 1)
    /\ [][\A t \in Callers :
            StartBody(t) /\ operations = << >> =>
                /\ Len(rpc') = Len(rpc) + 1
                /\ rpc'[Len(rpc')] = "test"
                /\ thread' = RName(Len(rpc'))
                /\ ~stopFlag']_vars

\* The second renderer thread, launched after the set went back to empty,
\* has written a frame.
C11_Witness ==
    /\ Len(rpc) = 2
    /\ rpc[1] = "dead"
    /\ rpc[2] = "test"
    /\ thread = RName(2)
    /\ operations # << >>
    /\ status # None
    /\ Len(out) = 1

\* C12: a stop issued by a caller none of whose operations is in the
\* active set writes no permanent line and removes no entry.
C12_SurplusStopIsNoOp ==
    [][\A t \in Callers :
          StopEmit(t) /\ hist[t].surplus =>
              out' = out /\ operations' = operations]_vars

\* C13: a stop that finds operations empty writes no line, leaves
\* operations empty and current None, raises nothing and returns.
C13_StopOnEmptySet ==
    [][\A t \in Callers :
          /\ StopEmit(t) /\ operations = << >> =>
                /\ out' = out
                /\ status' = status
                /\ operations' = << >>
                /\ current' = None
                /\ tpc'[t] = "stop_check"
          /\ StopCheck(t) /\ thread = None =>
                /\ operations' = << >>
                /\ current' = None
                /\ tpc'[t] = "ret"]_vars

\* One thread has called start, stop and stop again, and the second stop,
\* made on the empty set, has returned.
C13_Witness ==
    /\ calls = 3
    /\ hist["aux"] = [open |-> 0, surplus |-> FALSE]
    /\ hist["main"] = [open |-> 0, surplus |-> TRUE]
    /\ tpc["main"] = "ret"
    /\ targ["main"] \in BOOLEAN
    /\ operations = << >>
    /\ current = None
    /\ Len(out) = 1

\* C14: whatever the labels, a stop that finds operations non-empty
\* removes exactly one entry.
C14_StopRemovesOneEntry ==
    [][\A t \in Callers :
          StopEmit(t) /\ operations # << >> =>
              Len(operations') = Len(operations) - 1]_vars

C16_EmptyInput ==
    N = 0 =>
        /\ operations = << >> /\ current = None
        /\ ~stopFlag /\ thread = None /\ lock = "free"
        /\ rpc = << >>
        /\ tpc["main"] = "idle"
        /\ out = << >> /\ status = None
        /\ results = << >>
        /\ pc \in {"for_submit", "for_collect", "done"}

\* The call with the empty list has returned.
C16_Witness == N = 0 /\ pc = "done" /\ results = << >>

\* C17: whatever the number of tasks, a submitted task never waits for
\* another task to finish before its work starts.
C17_NoTaskWaits ==
    \A j \in 1..N : fut[j] = "pending" => ENABLED WorkerRun(j)

\* C17, amended: with at most as many tasks as the pool has workers, a
\* submitted task never waits for another one; with more, the tasks
\* executing at the same time are never more than the workers.
C17_NoTaskWaitsWithinPool ==
    /\ N <= MaxWorkers =>
           \A j \in 1..N : fut[j] = "pending" => ENABLED WorkerRun(j)
    /\ Cardinality(Running) <= MaxWorkers

\* As many tasks as workers, all executing at the same time.
C17_Witness ==
    /\ N = MaxWorkers
    /\ Running = 1..N

\* C18: a wrapper or block that has ended made exactly one stop call, with
\* success true exactly when its body raised nothing, and ended as its body
\* did: with the body's exception, or with the body's result.
C18_OneStopAndSameOutcome ==
    \A t \in Callers :
        wrap[t].pc = "done" =>
            /\ wrap[t].stops = << ~Raised(wrap[t].body) >>
            /\ wrap[t].outcome = BodyResult(wrap[t].body)

\* Reading a formatted duration back: the number a run of decimal digits
\* writes, and the three fields of HH:MM:SS (the last two of two
\* characters).
IsDigits(cs) ==
    /\ cs # << >>
    /\ \A n \in 1..Len(cs) :
          cs[n] \in {"0", "1", "2", "3", "4", "5", "6", "7", "8", "9"}

RECURSIVE NumberOf(_)
NumberOf(cs) ==
    IF cs = << >> THEN 0
    ELSE 10 * NumberOf(SubSeq(cs, 1, Len(cs) - 1))
         + (CHOOSE d \in 0..9 : Digits(d) = << cs[Len(cs)] >>)

FieldHH(text) == SubSeq(text, 1, Len(text) - 6)
FieldMM(text) == SubSeq(text, Len(text) - 4, Len(text) - 3)
FieldSS(text) == SubSeq(text, Len(text) - 1, Len(text))

\* C19: for seconds >= 0 the result reads HH:MM:SS, HH the digits of
\* seconds div 3600 padded to two, MM and SS two digits in 0..59, and the
\* three together give back the argument.
C19_FormatNonNegative ==
    (dur.called /\ dur.seconds >= 0) =>
        LET text == dur.text
            hh == FieldHH(text)
            mm == FieldMM(text)
            ss == FieldSS(text)
        IN  /\ Len(text) >= 8
            /\ text[Len(text) - 2] = ":" /\ text[Len(text) - 5] = ":"
            /\ IsDigits(hh) /\ IsDigits(mm) /\ IsDigits(ss)
            /\ Len(hh) = 2 \/ hh[1] # "0"
            /\ NumberOf(hh) = dur.seconds \div 3600
            /\ NumberOf(mm) \in 0..59
            /\ NumberOf(ss) \in 0..59
            /\ NumberOf(hh) * 3600 + NumberOf(mm) * 60 + NumberOf(ss)
                   = dur.seconds

\* A hundred hours, one minute and 59 seconds: "100:01:59".
C19_Witness ==
    /\ dur.called
    /\ dur.seconds = 360119
    /\ dur.text = << "1", "0", "0", ":", "0", "1", ":", "5", "9" >>

\* C20: for seconds < 0 the result is "00:00:00".
C20_NegativeIsZero ==
    (dur.called /\ dur.seconds < 0) =>
        dur.text = << "0", "0", ":", "0", "0", ":", "0", "0" >>

\* str occurs in text as a run of consecutive characters.
Contains(text, str) ==
    \E i \in 1..(Len(text) - Len(str) + 1) :
        SubSeq(text, i, i + Len(str) - 1) = str

\* C21: the sanitized name has no space and no invalid character, at most
\* 255 characters and no period at its end; the artifact path is the
\* category directory followed by that name, which names nothing above or
\* below the directory, and holds no "../".
C21_SanitizedNameStaysInside ==
    san.called =>
        /\ \A i \in 1..Len(san.result) :
              /\ san.result[i] # " "
              /\ \A n \in 1..Len(InvalidChars) :
                    san.result[i] # InvalidChars[n]
        /\ Len(san.result) <= 255
        /\ san.result = << >> \/ san.result[Len(san.result)] # "."
        /\ san.result \notin { << "." >>, << ".", "." >> }
        /\ san.path = BaseDir \o << "/" >> \o Category \o << "/" >>
                         \o san.result
        /\ ~Contains(san.path, << ".", ".", "/" >>)

\* The name of the test, "unsafe/../../file.txt", has become
\* "unsafe....file.txt" inside the category directory.
C21_Witness ==
    /\ san.called
    /\ Contains(san.filename, << ".", ".", "/" >>)
    /\ Len(san.filename) = 21
    /\ Len(san.result) = 18
    /\ SubSeq(san.path, 1, 7) = << "/", "h", "/", "a", "/", "t", "/" >>
    /\ SubSeq(san.path, 8, 13) = << "u", "n", "s", "a", "f", "e" >>

\* C22: the sanitized name does not begin with a period.
C22_NoLeadingPeriod ==
    san.called => (san.result = << >> \/ san.result[1] # ".")

\* C23: the path returned does not exist; it is the path asked for when
\* that one is free, otherwise base_k.ext for the smallest k >= 1 whose
\* file does not exist; the files are the same after the call.
C23_UniqueFilename ==
    uniq.called =>
        /\ uniq.result \notin uniq.files
        /\ uniq.path \notin uniq.files => uniq.result = uniq.path
        /\ uniq.path \in uniq.files =>
              \E n \in 1..(MaxCounter + 1) :
                  /\ uniq.result = Numbered(uniq.path, n)
                  /\ \A m \in 1..(n - 1) :
                        Numbered(uniq.path, m) \in uniq.files
        /\ uniq.after = uniq.files

\* t.x and t_1.x to t_9.x exist, t_10.x does not: the result is t_10.x.
C23_Witness ==
    /\ uniq.called
    /\ uniq.path = << "t", ".", "x" >>
    /\ Cardinality(uniq.files) = 10
    /\ uniq.result = << "t", "_", "1", "0", ".", "x" >>

\* The commands a history file records, oldest first.
Commands(lines) ==
    LET kept == SelectSeq(lines,
                          LAMBDA line : line.kind \in {"text", "entry", "cmd"})
    IN  [i \in 1..Len(kept) |-> kept[i].cmd]

\* All but the last element.
Front(seq) == SubSeq(seq, 1, Len(seq) - 1)

\* C24: called on a file that records at least one command,
\* get_last_command returns the last command of the file and no error.
C24_ReturnsLastCommand ==
    (/\ history.log # << >>
     /\ history.log[1].op = "get"
     /\ history.cmds # << >>) =>
        history.log[1].result
            = << history.cmds[Len(history.cmds)], None >>

\* C25: called on a file that records at least two commands,
\* remove_last_command leaves the file of the earlier commands, every line
\* of the last entry gone, and get_last_command then returns the command
\* that was second to last.
C25_RemovesLastEntry ==
    (/\ history.log # << >>
     /\ history.log[1].op = "remove"
     /\ Len(history.cmds) >= 2) =>
        /\ PopBlank(history.log[1].after)
              = HistoryLines(history.shell, Front(history.cmds), 0)
        /\ (Len(history.log) >= 2 /\ history.log[2].op = "get") =>
              history.log[2].result
                  = << history.cmds[Len(history.cmds) - 1], None >>

\* C26: on a missing file, an empty file and a file of blank lines only,
\* no call writes or changes the file; get_last_command returns None with
\* "History file not found" for the missing file and "History is empty"
\* for the empty one, and remove_last_command returns an error, "History
\* is empty" for the empty file.
C26_NothingToForget ==
    history.cmds = << >> =>
        /\ history.writes = 0
        /\ \A i \in 1..Len(history.log) :
              LET call == history.log[i]
              IN  /\ call.after = call.before
                  /\ call.result[1] = None
                  /\ call.result[2] # None
                  /\ ~history.exists /\ call.op = "get" =>
                        call.result[2] = "History file not found"
                  /\ history.exists /\ call.before = << >> =>
                        call.result[2] = "History is empty"

\* Both functions have been called on a file of blank lines only.
C26_Witness ==
    /\ history.cmds = << >>
    /\ history.exists
    /\ Len(history.file) = 2
    /\ Len(history.log) = 3
    /\ history.log[1].op = "remove"
    /\ history.log[2].op = "get"
    /\ history.log[3].op = "remove"
    /\ history.log[3].result[2] = "No commands to remove"

\* C28: in main, get_last_command succeeds, its command is shown, and
\* remove_last_command follows: on a file that records at least two
\* commands, the command removed from the file is the command shown.
C28_ShownIsRemoved ==
    \A i \in 1..(Len(history.log) - 1) :
        (/\ history.log[i].op = "get"
         /\ history.log[i].result[2] = None
         /\ history.log[i + 1].op = "remove"
         /\ Len(Commands(history.log[i].before)) >= 2) =>
            Commands(history.log[i + 1].before)
                = Commands(history.log[i + 1].after)
                    \o << history.log[i].result[1] >>

\* C27: operations and current are read and written by the holder of the
\* lock only, and every frame the renderer writes shows current, a label
\* that is in operations when the frame is written.
C27_DrawnLabelIsActive ==
    [][/\ \A t \in Callers :
            (StartBody(t) \/ StopEmit(t) \/ StopCheck(t)) => lock = t
       /\ \A r \in 1..Len(rpc) :
            /\ (RenderCheck(r) \/ RenderWrite(r)) => lock = RName(r)
            /\ RenderWrite(r) =>
                  /\ status' = current
                  /\ current \in Active
       /\ (operations' # operations \/ current' # current) =>
            lock \in Callers]_vars

\* After a stop has removed one of two labels, the renderer has drawn a
\* frame for the one that is left.
C27_Witness ==
    /\ Len(out) = 1
    /\ status # None
    /\ operations = << status >>
    /\ current = status
    /\ out[1].label # status
    /\ lock = "free"

\* C29: with blocks nested on one thread, once a start or stop has
\* returned the permanent lines are those of the blocks closed, in the
\* order they closed, the label displayed is that of the innermost open
\* block, and with no block open any more the active set is empty and the
\* renderer stopped.
C29_NestedBlocks ==
    tpc["main"] \in {"idle", "ret"} =>
        /\ Len(out) = Len(nest.closed)
        /\ \A i \in 1..Len(out) :
              out[i] = PermanentLine(nest.closed[i].success,
                                     nest.closed[i].label, 0)
        /\ current = IF nest.stack # << >>
                      THEN nest.stack[Len(nest.stack)] ELSE None
        /\ nest.stack = << >> =>
              operations = << >> /\ thread = None /\ Alive = {}

====
